---- MODULE Spec2Model ----
(***************************************************************************)
(* GenMotionPhoto: the three container assemblers                          *)
(*   gen_motion_photo      (GenMotionPhoto.py)        image + video        *)
(*   gen_ultra_hdr         (GenUltraHDRPhoto.py)      image + gain map     *)
(*   gen_hdr_motion_photo  (GenUltraHdrMotionPhoto.py) image + gain + video*)
(* over a small file system.  A file is a sequence of chunks; a chunk is   *)
(* an opaque run of bytes (its identity and length), possibly carrying an  *)
(* XMP block written by the metadata tool.  Sizes are exact byte counts:   *)
(* the XMP block's size is the template's fixed text plus the decimal      *)
(* digits of the lengths and the characters of the formatted parameters.   *)
(***************************************************************************)
EXTENDS Integers, Sequences, FiniteSets, TLC

VARIABLES fs, dirs, pc, run, loc, pre, prev, runs

vars == <<fs, dirs, pc, run, loc, pre, prev, runs>>

(* ------------------------------ bounds -------------------------------- *)

\* invocations per behaviour of Spec
MaxRuns == 1
\* invocations that follow the first in a behaviour of SpecRerun
MaxReruns == 1
\* bytes the metadata tool adds around an XMP block (marker, length, namespace)
ToolOverhead == 33
\* sizes of the still image found at in/a: one far from any power of ten, one
\* that passes 10^4 when the first descriptor goes in, and one that the
\* combined pipeline brings to 9998 bytes by its first injection
SmallPhoto == 1000
LargePhoto == 9500
EdgePhoto == 8522
\* sizes of the other files of the initial file system
VideoBytes == 500
OldBytes == 300

(* --------------------------- the file system -------------------------- *)

Dirs == {"in", "out"}
Paths == {<<"in", "a">>, <<"in", "b">>, <<"out", "a">>}
Tmp == <<"tmp", "img">>
NoPath == <<"-", "-">>

NoDesc == [kind |-> "none", items |-> <<>>, params |-> <<>>]
NoFile == [exists |-> FALSE, data |-> <<>>]

Raw(id, len, jpeg) ==
    [kind |-> "raw", id |-> id, len |-> len, jpeg |-> jpeg, ovh |-> 0, xmp |-> NoDesc]
File(data) == [exists |-> TRUE, data |-> data]

(* ------------------------- descriptor builders ------------------------ *)

XmpFixedMotion == 1113
XmpFixedUltraHdr == 1295
XmpFixedCombined == 1424

\* the parameter dictionaries of the calls: formatted values by key
NoParams == [k \in {} |-> ""]
PARAMS == [gainMapMax |-> "2.1", gamma |-> "1.0", hdrCapacityMax |-> "2.1"]
ParamSets == {PARAMS}

Get(params, key, default) == IF key \in DOMAIN params THEN params[key] ELSE default

Item(mime, role, len) == [mime |-> mime, role |-> role, len |-> len]

create_xmp_file(image_length, video_length) ==
    [kind |-> "motion",
     items |-> << Item("image/jpeg", "Primary", image_length),
                  Item("video/mp4", "MotionPhoto", video_length) >>,
     params |-> <<>>]

create_ultrahdr_xmp(image_length, gainmap_length, params) ==
    [kind |-> "ultrahdr",
     items |-> << Item("image/jpeg", "Primary", 0),
                  Item("image/jpeg", "GainMap", gainmap_length) >>,
     params |-> << Get(params, "gainMapMin", "0.0"),
                   Get(params, "gainMapMax", "1.0"),
                   Get(params, "gamma", "1.0"),
                   Get(params, "hdrCapacityMin", "0.0"),
                   Get(params, "hdrCapacityMax", "2.0") >>]

create_combined_xmp(sdr_len, gm_len, video_len, params) ==
    [kind |-> "combined",
     items |-> << Item("image/jpeg", "Primary", sdr_len),
                  Item("image/jpeg", "GainMap", gm_len),
                  Item("video/mp4", "MotionPhoto", video_len) >>,
     params |-> << Get(params, "gainMapMin", "0.0"),
                   Get(params, "gainMapMax", "2.1"),
                   Get(params, "gamma", "1.0"),
                   Get(params, "hdrCapacityMax", "2.1") >>]

\* number of characters of str(n) for a byte count n >= 0
RECURSIVE Digits(_)
Digits(n) == IF n < 10 THEN 1 ELSE 1 + Digits(n \div 10)

RECURSIVE SumDigits(_)
SumDigits(items) ==
    IF items = <<>> THEN 0 ELSE Digits(Head(items).len) + SumDigits(Tail(items))

RECURSIVE SumChars(_)
SumChars(strs) == IF strs = <<>> THEN 0 ELSE Len(Head(strs)) + SumChars(Tail(strs))

XmpFixed(kind) ==
    CASE kind = "motion" -> XmpFixedMotion
      [] kind = "ultrahdr" -> XmpFixedUltraHdr
      [] kind = "combined" -> XmpFixedCombined
      [] OTHER -> 0

\* bytes of the descriptor file written by the builder (xmp_content.strip(), utf-8)
XmpSize(desc) ==
    IF desc.kind = "none" THEN 0
    ELSE XmpFixed(desc.kind) + SumDigits(desc.items) + SumChars(desc.params)

(* ------------------------------ file sizes ---------------------------- *)

ChunkSize(c) == c.len + c.ovh + XmpSize(c.xmp)

RECURSIVE DataSize(_)
DataSize(data) == IF data = <<>> THEN 0 ELSE ChunkSize(Head(data)) + DataSize(Tail(data))

\* os.path.getsize
getsize(path) == DataSize(fs[path].data)

\* os.path.exists
exists(path) == path \in DOMAIN fs /\ fs[path].exists

\* f.read(2) == b'\xff\xd8'
IsJpeg(path) == fs[path].data # <<>> /\ Head(fs[path].data).jpeg

(* --------------------------- the metadata tool ------------------------ *)

\* exiftool -overwrite_original -xmp<=descriptor file: the XMP block of the
\* image at the head of the file is replaced by the descriptor; the bytes
\* after the image are kept
ExifTool(data, desc) ==
    LET c == Head(data)
    IN  << [c EXCEPT !.kind = "image",
                     !.ovh = IF c.kind = "raw" THEN ToolOverhead ELSE c.ovh,
                     !.xmp = desc] >> \o Tail(data)

(* ------------------------------ invocations --------------------------- *)

PhotoSizes == {SmallPhoto, LargePhoto, EdgePhoto}

NoRun == [variant |-> "none", photo |-> NoPath, gm |-> NoPath, video |-> NoPath,
          out |-> NoPath, params |-> NoParams]

NoLoc == [gm_size |-> 0, video_size |-> 0, final_size |-> 0,
          xmp_file |-> NoDesc, xmp_file_final |-> NoDesc,
          injected |-> 0, tmp_used |-> FALSE, todo |-> <<>>,
          moved |-> <<>>, appended |-> <<>>, err |-> "none", failed_at |-> "none"]

NoPrev == [ok |-> FALSE, variant |-> "none", out |-> NoPath]

Snapshot(f, d) == [fs |-> f, dirs |-> d]

\* the file system before the first call: an image at in/a, a video (no
\* JPEG) at in/b, and perhaps a directory out, perhaps with an older file out/a
InitWith(sizes) ==
    /\ \E s \in sizes, old \in BOOLEAN, outdir \in BOOLEAN :
         /\ (old => outdir)
         /\ fs = [p \in Paths \cup {Tmp} |->
                    CASE p = <<"in", "a">> -> File(<< Raw("photo", s, TRUE) >>)
                      [] p = <<"in", "b">> -> File(<< Raw("video", VideoBytes, FALSE) >>)
                      [] p = <<"out", "a">> ->
                           IF old THEN File(<< Raw("old", OldBytes, TRUE) >>) ELSE NoFile
                      [] OTHER -> NoFile]
         /\ dirs = IF outdir THEN {"in", "out"} ELSE {"in"}
    /\ pc = "idle"
    /\ run = NoRun
    /\ loc = NoLoc
    /\ pre = Snapshot(fs, dirs)
    /\ prev = NoPrev
    /\ runs = 0

Init == InitWith(PhotoSizes)

InitRerun == InitWith({SmallPhoto})

\* injecting into the caller's image instead of the copy
InPlaceImage(r) == r.photo

\* injecting into the file at the output path instead of the copy
OutputImage(r) == r.out

\* the file handed to the metadata tool: the copy tmp_photo / tmp_output / tmp_jpg
InjectTarget(r) == Tmp

\* the video written before the gain map
VideoFirst(r) ==
    CASE r.variant = "motion" -> << r.video >>
      [] r.variant = "ultrahdr" -> << r.gm >>
      [] r.variant = "combined" -> << r.video, r.gm >>
      [] OTHER -> <<>>

\* the files appended after the Primary, in the order they are written
Segments(r) ==
    CASE r.variant = "motion" -> << r.video >>
      [] r.variant = "ultrahdr" -> << r.gm >>
      [] r.variant = "combined" -> << r.gm, r.video >>
      [] OTHER -> <<>>

\* leaving the `with tempfile.TemporaryDirectory()` block deletes the copy
Cleanup(f) == [f EXCEPT ![Tmp] = NoFile]

\* shutil.copy2(src, dst)
copy2(f, src, dst) == [f EXCEPT ![dst] = f[src]]

\* os.remove(path)
remove(f, path) == [f EXCEPT ![path] = NoFile]

\* shutil.move(src, dst): dst becomes the file src was
move(f, src, dst) == [f EXCEPT ![dst] = f[src], ![src] = NoFile]

\* the output opened "wb": what was there is dropped
WriteTruncating(old, data) == data

\* open(output_path, "ab") and write(data)
WriteAppending(old, data) == old \o data

Begin(r, l, d) ==
    /\ run' = r
    /\ loc' = l
    /\ dirs' = d
    /\ pre' = Snapshot(fs, dirs)
    /\ runs' = runs + 1
    /\ pc' = IF l.err = "none" THEN "copy" ELSE "failed"
    /\ UNCHANGED <<fs, prev>>

\* the caller: at most `limit` invocations; with `again`, every invocation
\* after the first is one more of the pipeline that has just succeeded, onto
\* the same output path
Permitted(r, limit, again) ==
    /\ runs < limit
    /\ (again /\ runs > 0) =>
          (prev.ok /\ r.variant = prev.variant /\ r.out = prev.out)

gen_motion_photo(photo_path, video_path, output_dir, limit, again) ==
    LET output_path == << output_dir, photo_path[2] >>
        r == [NoRun EXCEPT !.variant = "motion", !.photo = photo_path,
                           !.video = video_path, !.out = output_path]
    IN  /\ pc = "idle"
        /\ Permitted(r, limit, again)
        /\ output_path \in Paths
        /\ IF ~exists(video_path)
             THEN Begin(r, [NoLoc EXCEPT !.err = "FileNotFoundError",
                                         !.failed_at = "check"],
                        dirs \cup {output_dir})
             ELSE Begin(r, [NoLoc EXCEPT !.video_size = getsize(video_path),
                                         !.todo = Segments(r)],
                        dirs \cup {output_dir})

\* for p in [abs_sdr, abs_gm]: the first missing or non-JPEG file raises
RECURSIVE CheckFiles(_)
CheckFiles(ps) ==
    IF ps = <<>> THEN "none"
    ELSE IF ~exists(Head(ps)) THEN "FileNotFoundError"
    ELSE IF ~IsJpeg(Head(ps)) THEN "ValueError"
    ELSE CheckFiles(Tail(ps))

gen_ultra_hdr(sdr_path, gainmap_path, output_path, params, limit, again) ==
    LET r == [NoRun EXCEPT !.variant = "ultrahdr", !.photo = sdr_path,
                           !.gm = gainmap_path, !.out = output_path,
                           !.params = params]
        e == CheckFiles(<< sdr_path, gainmap_path >>)
    IN  /\ pc = "idle"
        /\ Permitted(r, limit, again)
        /\ IF e # "none"
             THEN Begin(r, [NoLoc EXCEPT !.err = e, !.failed_at = "check"], dirs)
             ELSE Begin(r, [NoLoc EXCEPT !.gm_size = getsize(gainmap_path),
                                         !.todo = Segments(r)], dirs)

gen_hdr_motion_photo(sdr_path, gm_path, video_path, output_path, params, limit, again) ==
    LET r == [NoRun EXCEPT !.variant = "combined", !.photo = sdr_path,
                           !.gm = gm_path, !.video = video_path,
                           !.out = output_path, !.params = params]
    IN  /\ pc = "idle"
        /\ Permitted(r, limit, again)
        /\ IF ~exists(gm_path) \/ ~exists(video_path)
             THEN Begin(r, [NoLoc EXCEPT !.err = "FileNotFoundError",
                                         !.failed_at = "check"], dirs)
             ELSE Begin(r, [NoLoc EXCEPT !.gm_size = getsize(gm_path),
                                         !.video_size = getsize(video_path),
                                         !.todo = Segments(r)], dirs)

Fail(e, f) ==
    /\ pc' = "failed"
    /\ loc' = [loc EXCEPT !.err = e, !.failed_at = pc,
                          !.tmp_used = loc.tmp_used \/ pc = "copy"]
    /\ fs' = Cleanup(f)
    /\ UNCHANGED <<dirs, run, pre, prev, runs>>

\* shutil.copy2(abs_photo, tmp_photo) inside the fresh temporary directory
CopyToTmp ==
    /\ pc = "copy"
    /\ \/ /\ exists(run.photo)
          /\ fs' = copy2(fs, run.photo, Tmp)
          /\ loc' = [loc EXCEPT !.tmp_used = TRUE]
          /\ pc' = "inject1"
          /\ UNCHANGED <<dirs, run, pre, prev, runs>>
       \/ /\ ~exists(run.photo)
          /\ Fail("FileNotFoundError", fs)
       \/ /\ exists(run.photo)
          /\ Fail("OSError", fs)

\* the descriptor of a pass, declaring `length` for the Primary
BuildXmp(r, l, length) ==
    CASE r.variant = "motion" -> create_xmp_file(length, l.video_size)
      [] r.variant = "ultrahdr" -> create_ultrahdr_xmp(length, l.gm_size, r.params)
      [] r.variant = "combined" ->
           create_combined_xmp(length, l.gm_size, l.video_size, r.params)
      [] OTHER -> NoDesc

\* the length the first pass declares: the copy's size, or the placeholder 0
FirstLength(r, f) ==
    IF r.variant = "motion" THEN DataSize(f[Tmp].data) ELSE 0

\* apply_metadata / apply_ultrahdr_metadata: the tool exits 0 or not
Inject(target, desc, nextpc, l) ==
    \/ /\ exists(target)
       /\ fs' = [fs EXCEPT ![target] = File(ExifTool(fs[target].data, desc))]
       /\ loc' = [l EXCEPT !.injected = l.injected + 1]
       /\ pc' = nextpc
       /\ UNCHANGED <<dirs, run, pre, prev, runs>>
    \/ Fail("CalledProcessError", fs)

FirstInjection ==
    /\ pc = "inject1"
    /\ LET xmp == BuildXmp(run, loc, FirstLength(run, fs))
       IN  Inject(InjectTarget(run), xmp, "inject2", [loc EXCEPT !.xmp_file = xmp])

SecondInjection ==
    /\ pc = "inject2"
    /\ LET size == getsize(Tmp)
           xmp == BuildXmp(run, loc, size)
       IN  Inject(InjectTarget(run), xmp, "remove",
                  [loc EXCEPT !.final_size = size, !.xmp_file_final = xmp])

\* if os.path.exists(output_path): os.remove(output_path)
RemoveOld ==
    /\ pc = "remove"
    /\ \/ /\ fs' = IF exists(run.out) THEN remove(fs, run.out) ELSE fs
          /\ pc' = "move"
          /\ UNCHANGED <<dirs, run, loc, pre, prev, runs>>
       \/ /\ exists(run.out)
          /\ Fail("OSError", fs)

\* shutil.move(tmp_photo, output_path), then the temporary directory goes
MoveToOutput ==
    /\ pc = "move"
    /\ \/ /\ run.out[1] \in dirs
          /\ exists(Tmp)
          /\ fs' = Cleanup(move(fs, Tmp, run.out))
          /\ loc' = [loc EXCEPT !.moved = fs[Tmp].data]
          /\ pc' = "append"
          /\ UNCHANGED <<dirs, run, pre, prev, runs>>
       \/ /\ run.out[1] \notin dirs
          /\ Fail("FileNotFoundError", fs)
       \/ /\ run.out[1] \in dirs
          /\ Fail("OSError", fs)

\* what a read of `path` returns while the output is open for appending: the
\* bytes written so far to the output may or may not have left its buffer
ReadData(path) ==
    IF run.variant = "combined" /\ path = run.out /\ loc.appended # <<>>
      THEN {fs[path].data, loc.moved}
      ELSE {fs[path].data}

\* read the next segment whole and append it to the output
AppendSegment ==
    /\ pc = "append"
    /\ loc.todo # <<>>
    /\ LET path == Head(loc.todo)
       IN  \/ /\ exists(path)
              /\ exists(run.out)
              /\ \E data \in ReadData(path) :
                   /\ fs' = [fs EXCEPT ![run.out] =
                                          File(WriteAppending(fs[run.out].data, data))]
                   /\ loc' = [loc EXCEPT !.todo = Tail(loc.todo),
                                         !.appended = Append(loc.appended,
                                                        [path |-> path, data |-> data])]
              /\ pc' = IF Tail(loc.todo) = <<>> THEN "done" ELSE "append"
              /\ UNCHANGED <<dirs, run, pre, prev, runs>>
           \/ Fail("OSError", fs)

\* the call returns, or raises to its caller
Return ==
    /\ pc \in {"done", "failed"}
    /\ pc' = "idle"
    /\ prev' = [ok |-> pc = "done", variant |-> run.variant, out |-> run.out]
    /\ run' = NoRun
    /\ loc' = NoLoc
    /\ pre' = Snapshot(fs, dirs)
    /\ UNCHANGED <<fs, dirs, runs>>

Call(limit, again) ==
    \/ \E photo \in Paths, video \in Paths, outdir \in Dirs :
         gen_motion_photo(photo, video, outdir, limit, again)
    \/ \E sdr \in Paths, gm \in Paths, out \in Paths, params \in ParamSets :
         gen_ultra_hdr(sdr, gm, out, params, limit, again)
    \/ \E sdr \in Paths, gm \in Paths, video \in Paths, out \in Paths,
          params \in ParamSets :
         gen_hdr_motion_photo(sdr, gm, video, out, params, limit, again)

Step ==
    \/ CopyToTmp
    \/ FirstInjection
    \/ SecondInjection
    \/ RemoveOld
    \/ MoveToOutput
    \/ AppendSegment
    \/ Return

Next == Call(MaxRuns, FALSE) \/ Step

Spec == Init /\ [][Next]_vars

NextRerun == Call(1 + MaxReruns, TRUE) \/ Step

SpecRerun == InitRerun /\ [][NextRerun]_vars

TypeOK ==
    /\ pc \in {"idle", "copy", "inject1", "inject2", "remove", "move", "append",
               "done", "failed"}
    /\ runs \in 0..(MaxRuns + MaxReruns)
    /\ dirs \subseteq Dirs
    /\ DOMAIN fs = Paths \cup {Tmp}

(* ------------------------------- claims ------------------------------- *)

\* the input files of an invocation
Inputs(r) == {r.photo, r.gm, r.video} \ {NoPath}

\* the descriptor embedded in the head image of the output
Embedded == Head(fs[run.out].data).xmp

RECURSIVE SumLens(_)
SumLens(items) == IF items = <<>> THEN 0 ELSE Head(items).len + SumLens(Tail(items))

RECURSIVE Flatten(_)
Flatten(parts) == IF parts = <<>> THEN <<>> ELSE Head(parts).data \o Flatten(Tail(parts))

\* physical byte lengths of the segments of the finished output, in file order
Physical ==
    << DataSize(loc.moved) >> \o
    [i \in 1..Len(loc.appended) |-> DataSize(loc.appended[i].data)]

\* the gain-map and video arguments of the call, gain map first
Trailing(r) ==
    (IF r.gm # NoPath THEN << r.gm >> ELSE <<>>) \o
    (IF r.video # NoPath THEN << r.video >> ELSE <<>>)

\* the output path of the invocation is none of its input files
Apart == run.out \notin Inputs(run)

\* C1: after a successful run (here: one whose output path is none of its
\* inputs) every length the embedded descriptor declares equals the physical
\* byte length of that segment of the output file, and the declared lengths
\* add up to the size of the output file.
C1_DeclaredLengthsExact ==
    (pc = "done" /\ Apart) =>
       /\ Len(Embedded.items) = Len(Physical)
       /\ \A i \in 1..Len(Physical) : Embedded.items[i].len = Physical[i]
       /\ SumLens(Embedded.items) = getsize(run.out)

\* C2: once the second injection has returned, measuring the copy, building a
\* descriptor that declares that length and injecting it a third time leaves
\* the size of the copy as it is.
C2_ThirdPassStable ==
    pc = "remove" =>
       LET size == getsize(Tmp)
           third == ExifTool(fs[Tmp].data, BuildXmp(run, loc, size))
       IN  DataSize(third) = size

\* C3: when the metadata tool exits non-zero, on the first or on the second
\* injection, the invocation has failed and the input image is what it was
\* before the call.
C3_ToolFailureKeepsInput ==
    (pc = "failed" /\ loc.err = "CalledProcessError") =>
       /\ loc.failed_at \in {"inject1", "inject2"}
       /\ fs[run.photo] = pre.fs[run.photo]

C3_Witness ==
    /\ pc = "failed"
    /\ loc.err = "CalledProcessError"
    /\ loc.failed_at = "inject2"
    /\ loc.injected = 1
    /\ pre.fs[run.photo].exists

\* a required input is missing at the call, or (gen_ultra_hdr) is not a JPEG
BadInput ==
    \/ \E p \in Inputs(run) : ~pre.fs[p].exists
    \/ /\ run.variant = "ultrahdr"
       /\ \E p \in Inputs(run) : ~Head(pre.fs[p].data).jpeg

\* C4: an invocation given a missing (or, in gen_ultra_hdr, non-JPEG) input
\* fails before any write: no directory created, no temporary copy, no
\* injection, the output path and every other file as before the call.
C4_ValidationBeforeWrites ==
    (pc = "failed" /\ BadInput) =>
       /\ dirs = pre.dirs
       /\ ~loc.tmp_used
       /\ loc.injected = 0
       /\ fs = pre.fs

\* C5: when a copy, move, read or append fails (here: in an invocation whose
\* output path is none of its inputs), the output path holds no Primary that
\* lacks some of its trailing segments, and a file that was at the output
\* path before the call is still there.
C5_NoPartialOutput ==
    (pc = "failed" /\ Apart /\ loc.failed_at \in {"copy", "remove", "move", "append"}) =>
       /\ ~(loc.moved # <<>> /\ loc.todo # <<>> /\ exists(run.out))
       /\ (pre.fs[run.out].exists => exists(run.out))

\* C6: a successful invocation that follows a successful invocation of the
\* same pipeline with the same output path leaves at that path its own
\* Primary followed by the segments it appended, one per trailing role, and
\* nothing else; the size of the file is the sum of their sizes; and when the
\* output path is none of its inputs the segments are its input files, of
\* the sizes it measured.
C6_OverwriteReplaces ==
    (pc = "done" /\ prev.ok /\ prev.variant = run.variant /\ prev.out = run.out) =>
       /\ fs[run.out].data = loc.moved \o Flatten(loc.appended)
       /\ Len(loc.appended) = Len(Trailing(run))
       /\ getsize(run.out) = DataSize(loc.moved) + DataSize(Flatten(loc.appended))
       /\ Apart =>
            /\ Flatten(loc.appended) =
                 Flatten([i \in 1..Len(Trailing(run)) |-> pre.fs[Trailing(run)[i]]])
            /\ getsize(run.out) = DataSize(loc.moved) + loc.gm_size + loc.video_size

\* the second of two successful runs of one pipeline onto one output path
\* that held the first run's container, which is none of the second's inputs
C6_Witness ==
    /\ pc = "done"
    /\ prev.ok
    /\ prev.variant = run.variant
    /\ prev.out = run.out
    /\ Apart
    /\ pre.fs[run.out].exists
    /\ Len(pre.fs[run.out].data) > 1
    /\ fs[run.out] # pre.fs[run.out]

\* C7: the output is the Primary, then the gain map (if any), then the video
\* (if any), with nothing between or after them, each segment being its input
\* file's bytes, and the descriptor lists the roles in that order.
C7_SegmentOrder ==
    pc = "done" =>
       /\ [i \in 1..Len(Embedded.items) |-> Embedded.items[i].role] =
            << "Primary" >> \o
            (IF run.gm # NoPath THEN << "GainMap" >> ELSE <<>>) \o
            (IF run.video # NoPath THEN << "MotionPhoto" >> ELSE <<>>)
       /\ [i \in 1..Len(loc.appended) |-> loc.appended[i].path] = Trailing(run)
       /\ fs[run.out].data = loc.moved \o Flatten(loc.appended)
       /\ \A i \in 1..Len(loc.appended) :
            loc.appended[i].path # run.out =>
               loc.appended[i].data = pre.fs[loc.appended[i].path].data

C7_Witness ==
    /\ pc = "done"
    /\ run.variant = "combined"
    /\ run.gm # run.video
    /\ run.out \notin Inputs(run)
    /\ Len(fs[run.out].data) = 3

\* C8: the descriptor of the second pass declares as Primary length the size
\* of the copy measured after the first injection, and its other lengths are
\* those of the first pass.
C8_SecondPassLength ==
    loc.injected = 2 =>
       /\ loc.xmp_file_final.items[1].len = loc.final_size
       /\ \A i \in 2..Len(loc.xmp_file.items) :
            loc.xmp_file_final.items[i].len = loc.xmp_file.items[i].len

\* C9: the output path changes only after both injections have succeeded, and
\* when an injection fails the output path is as before the call and nothing
\* has been appended.
C9_FinalizeAfterInjections ==
    pc # "idle" =>
       /\ (fs[run.out] # pre.fs[run.out] => loc.injected = 2)
       /\ (pc = "failed" /\ loc.err = "CalledProcessError") =>
             (fs[run.out] = pre.fs[run.out] /\ loc.appended = <<>>)

C9_Witness ==
    /\ pc = "failed"
    /\ loc.err = "CalledProcessError"
    /\ loc.injected = 1
    /\ pre.fs[run.out].exists
    /\ fs[run.out] = pre.fs[run.out]

\* C10: during and after an invocation every input file is what it was before
\* the call.
C10_InputsUntouched ==
    pc # "idle" => \A p \in Inputs(run) : fs[p] = pre.fs[p]

====
